---- MODULE Spec2Model ----
(***************************************************************************)
(* Model of the persisted cooldown + shuffle-bag picker of arr-search      *)
(* (src/app/main.py, class StateStore) and of the part of the main loop    *)
(* that drives it.                                                         *)
(***************************************************************************)
EXTENDS Integers, Sequences, FiniteSets, TLC

\* ---------------------------------------------------------------- bounds
MaxId == 2          \* item ids are 1..MaxId
MaxTime == 1        \* the clock runs over 0..MaxTime
MaxCount == 2       \* draw counts run over -1..MaxCount
MaxCooldown == 1    \* cooldown_seconds runs over 0..MaxCooldown
MaxChunks == 2      \* json.dump hands the document to the file in MaxChunks writes
MaxDraws == 1       \* draws of one main-loop iteration in SpecLoop
MaxLen == 2         \* length of the bag and seen lists of a document in SpecLoad

Ids == 1..MaxId
Counts == (0 - 1)..MaxCount
CooldownSecs == 0..MaxCooldown

\* The bucket names used by the callers (sonarr_run_once, radarr_run_once, ...).
Bucket1 == "sonarr_missing"
Bucket2 == "sonarr_upgrades"

\* ------------------------------------------------------ values and dicts
\* The elements of eligible_ids as the caller hands them over, and the items
\* of a bag or seen list in a state file:
\*   int     an int
\*   numstr  a string of digits such as "1"
\*   plus    a string int() reads that is not all digits, such as "+1"
\*   bad     a string int() raises on that is not all digits, such as "abc"
\*   dashes  a string of dashes and digits int() raises on, such as "--1"
RawIds ==
    {[kind |-> "int", val |-> i] : i \in Ids}
        \cup {[kind |-> "numstr", val |-> 1], [kind |-> "plus", val |-> 1],
              [kind |-> "bad", val |-> 0], [kind |-> "dashes", val |-> 0]}

\* int(x) succeeds on ints and on the strings it can read, and raises
\* ValueError otherwise.
IntRaises(x) == x.kind \in {"bad", "dashes"}
IntOf(x) == x.val
RawOf(S) == {[kind |-> "int", val |-> i] : i \in S}

\* str(item_id): the key of a cooldown entry is the decimal string of the id.
Str(i) == <<"str", i>>

EmptyDict == [k \in {} |-> 0]
DictSet(m, k, v) == (k :> v) @@ m

Range(s) == {s[i] : i \in 1..Len(s)}
NoDups(s) == \A i, j \in 1..Len(s) : s[i] = s[j] => i = j

\* [x for x in seq if x in S]
RECURSIVE Keep(_, _)
Keep(seq, S) ==
    IF seq = <<>> THEN <<>>
    ELSE (IF Head(seq) \in S THEN <<Head(seq)>> ELSE <<>>) \o Keep(Tail(seq), S)

\* random.shuffle(list(S)): every ordering of S is a possible outcome.
RECURSIVE Shuffles(_)
Shuffles(S) ==
    IF S = {} THEN {<<>>}
    ELSE UNION {{<<x>> \o p : p \in Shuffles(S \ {x})} : x \in S}

\* ------------------------------------------------------------- variables
VARIABLES
    cooldowns,   \* StateStore.cooldowns: bucket -> (str(id) -> epoch)
    shuffle,     \* StateStore.shuffle: bucket -> [bag, seen]
    now,         \* the value now_epoch() returns
    last,        \* the last operation: its arguments and what it returned
    elig,        \* bucket -> the eligible set _refresh_bucket last reconciled it against
    disk,        \* the document in the state file
    pc,          \* where the main loop stands: "work" (in the try block), "save",
                 \* "write" (inside atomic_write_json) or "sleep"
    marked,      \* bucket -> (str(id) -> clock time of the last committed pick), kept over restarts
    fixedE,      \* the eligible set of a fixed-set scenario
    fixedT,      \* the cooldown of a fixed-cooldown scenario
    history,     \* the ids the draws of a fixed-set scenario returned, in order
    tmp,         \* the temporary file "<state_path>.tmp" of atomic_write_json
    trace        \* the steps of the main-loop iteration in progress

vars == <<cooldowns, shuffle, now, last, elig, disk, pc, marked, fixedE, fixedT,
          history, tmp, trace>>

\* ------------------------------------------------------------- cooldown
\* _cd_bucket: creates the bucket's dict when it is missing.
cd_bucket(cds, bucket) ==
    IF bucket \in DOMAIN cds THEN cds ELSE DictSet(cds, bucket, EmptyDict)

\* is_cooled_down with ">" in the place of ">=".
is_cooled_down_strict(cds, bucket, item_id, cooldown_seconds, t) ==
    IF cooldown_seconds <= 0 THEN TRUE
    ELSE LET b == cd_bucket(cds, bucket)[bucket]
         IN  IF Str(item_id) \notin DOMAIN b THEN TRUE
             ELSE (t - b[Str(item_id)]) > cooldown_seconds

\* is_cooled_down with the difference taken the wrong way round.
is_cooled_down_backwards(cds, bucket, item_id, cooldown_seconds, t) ==
    IF cooldown_seconds <= 0 THEN TRUE
    ELSE LET b == cd_bucket(cds, bucket)[bucket]
         IN  IF Str(item_id) \notin DOMAIN b THEN TRUE
             ELSE (b[Str(item_id)] - t) >= cooldown_seconds

\* is_cooled_down: the value returned, at clock time t.
is_cooled_down(cds, bucket, item_id, cooldown_seconds, t) ==
    IF cooldown_seconds <= 0 THEN TRUE
    ELSE LET b == cd_bucket(cds, bucket)[bucket]
         IN  IF Str(item_id) \notin DOMAIN b THEN TRUE
             ELSE (t - b[Str(item_id)]) >= cooldown_seconds

\* is_cooled_down: the cooldowns mapping it leaves behind (it goes through
\* _cd_bucket unless it returns at the cooldown_seconds <= 0 test).
is_cooled_down_cds(cds, bucket, cooldown_seconds) ==
    IF cooldown_seconds <= 0 THEN cds ELSE cd_bucket(cds, bucket)

\* The selection is written into the dict of the first bucket as well.
mark_searched_shared(cds, bucket, item_id, t) ==
    LET c == cd_bucket(cd_bucket(cds, bucket), Bucket1)
    IN  [c EXCEPT ![bucket] = DictSet(c[bucket], Str(item_id), t),
                  ![Bucket1] = DictSet(c[Bucket1], Str(item_id), t)]

\* The selection is recorded with the second after the one read.
mark_searched_next_second(cds, bucket, item_id, t) ==
    LET c == cd_bucket(cds, bucket)
    IN  [c EXCEPT ![bucket] = DictSet(c[bucket], Str(item_id), t + 1)]

\* The selection is recorded with the second before the one read.
mark_searched_second_before(cds, bucket, item_id, t) ==
    LET c == cd_bucket(cds, bucket)
    IN  [c EXCEPT ![bucket] = DictSet(c[bucket], Str(item_id), t - 1)]

\* mark_searched at clock time t.
mark_searched(cds, bucket, item_id, t) ==
    LET c == cd_bucket(cds, bucket)
    IN  [c EXCEPT ![bucket] = DictSet(c[bucket], Str(item_id), t)]

\* The pick recorded whatever mark says.
record_pick_always(cds, bucket, chosen, mark, t) ==
    mark_searched(cds, bucket, chosen, t)

\* "if mark: self.mark_searched(bucket, chosen)" of draw_no_repeat.
record_pick(cds, bucket, chosen, mark, t) ==
    IF mark THEN mark_searched(cds, bucket, chosen, t) ELSE cds

\* range(count + 1) in the place of range(count).
range_len_one_more(count) == IF count > 0 THEN count + 1 ELSE 0

\* range(count): the number of iterations of the for loop of draw_no_repeat.
range_len(count) == IF count > 0 THEN count ELSE 0

\* ----------------------------------------------------------- shuffle bag
\* _sh_bucket: creates the bucket's {"bag": [], "seen": []} when missing.
sh_bucket(sh, bucket) ==
    IF bucket \in DOMAIN sh THEN sh
    ELSE DictSet(sh, bucket, [bag |-> <<>>, seen |-> <<>>])

\* Variants of _refresh_bucket with one line changed each.
\* "if not bag:" replaced by an unconditional new cycle.
refresh_bucket_always_fresh(sh, bucket, eligible_set) ==
    LET s0 == sh_bucket(sh, bucket)
    IN  {[shuffle |-> [s0 EXCEPT ![bucket] = [bag |-> q, seen |-> <<>>]],
          fresh |-> TRUE] : q \in Shuffles(eligible_set)}

\* "new_ids = list(eligible_set - bag_set - seen_set)" without "- seen_set".
refresh_bucket_readds_seen(sh, bucket, eligible_set) ==
    LET s0 == sh_bucket(sh, bucket)
        bag == Keep(s0[bucket].bag, eligible_set)
        seen == Keep(s0[bucket].seen, eligible_set)
        new_ids == eligible_set \ Range(bag)
    IN  UNION {
          IF bag \o p = <<>>
          THEN {[shuffle |-> [s0 EXCEPT ![bucket] = [bag |-> q, seen |-> <<>>]],
                 fresh |-> TRUE] : q \in Shuffles(eligible_set)}
          ELSE {[shuffle |-> [s0 EXCEPT ![bucket] = [bag |-> bag \o p, seen |-> seen]],
                 fresh |-> FALSE]}
          : p \in Shuffles(new_ids)}

\* "bag = [... for x in b["bag"] if int(x) in eligible_set]" without the filter.
refresh_bucket_keeps_bag(sh, bucket, eligible_set) ==
    LET s0 == sh_bucket(sh, bucket)
        bag == s0[bucket].bag
        seen == Keep(s0[bucket].seen, eligible_set)
        new_ids == (eligible_set \ Range(bag)) \ Range(seen)
    IN  UNION {
          IF bag \o p = <<>>
          THEN {[shuffle |-> [s0 EXCEPT ![bucket] = [bag |-> q, seen |-> <<>>]],
                 fresh |-> TRUE] : q \in Shuffles(eligible_set)}
          ELSE {[shuffle |-> [s0 EXCEPT ![bucket] = [bag |-> bag \o p, seen |-> seen]],
                 fresh |-> FALSE]}
          : p \in Shuffles(new_ids)}

\* "seen = [... for x in b["seen"] if int(x) in eligible_set]" without the filter.
refresh_bucket_keeps_seen(sh, bucket, eligible_set) ==
    LET s0 == sh_bucket(sh, bucket)
        bag == Keep(s0[bucket].bag, eligible_set)
        seen == s0[bucket].seen
        new_ids == (eligible_set \ Range(bag)) \ Range(seen)
    IN  UNION {
          IF bag \o p = <<>>
          THEN {[shuffle |-> [s0 EXCEPT ![bucket] = [bag |-> q, seen |-> <<>>]],
                 fresh |-> TRUE] : q \in Shuffles(eligible_set)}
          ELSE {[shuffle |-> [s0 EXCEPT ![bucket] = [bag |-> bag \o p, seen |-> seen]],
                 fresh |-> FALSE]}
          : p \in Shuffles(new_ids)}

\* The new cycle started without "seen = []".
refresh_bucket_keeps_cycle(sh, bucket, eligible_set) ==
    LET s0 == sh_bucket(sh, bucket)
        bag == Keep(s0[bucket].bag, eligible_set)
        seen == Keep(s0[bucket].seen, eligible_set)
        new_ids == (eligible_set \ Range(bag)) \ Range(seen)
    IN  UNION {
          IF bag \o p = <<>>
          THEN {[shuffle |-> [s0 EXCEPT ![bucket] = [bag |-> q, seen |-> seen]],
                 fresh |-> TRUE] : q \in Shuffles(eligible_set)}
          ELSE {[shuffle |-> [s0 EXCEPT ![bucket] = [bag |-> bag \o p, seen |-> seen]],
                 fresh |-> FALSE]}
          : p \in Shuffles(new_ids)}

\* The bag is left empty when it empties: no new cycle is started.
refresh_bucket_no_reset(sh, bucket, eligible_set) ==
    LET s0 == sh_bucket(sh, bucket)
        bag == Keep(s0[bucket].bag, eligible_set)
        seen == Keep(s0[bucket].seen, eligible_set)
        new_ids == (eligible_set \ Range(bag)) \ Range(seen)
    IN  {[shuffle |-> [s0 EXCEPT ![bucket] = [bag |-> bag \o p, seen |-> seen]],
          fresh |-> FALSE] : p \in Shuffles(new_ids)}

\* The whole bag is shuffled on every call.
refresh_bucket_reshuffles(sh, bucket, eligible_set) ==
    LET s0 == sh_bucket(sh, bucket)
        bag == Keep(s0[bucket].bag, eligible_set)
        seen == Keep(s0[bucket].seen, eligible_set)
        new_ids == (eligible_set \ Range(bag)) \ Range(seen)
    IN  IF Range(bag) \cup new_ids = {}
        THEN {[shuffle |-> [s0 EXCEPT ![bucket] = [bag |-> q, seen |-> <<>>]],
               fresh |-> TRUE] : q \in Shuffles(eligible_set)}
        ELSE {[shuffle |-> [s0 EXCEPT ![bucket] = [bag |-> q, seen |-> seen]],
               fresh |-> FALSE] : q \in Shuffles(Range(bag) \cup new_ids)}

\* The new ids are put in front of the bag.
refresh_bucket_new_first(sh, bucket, eligible_set) ==
    LET s0 == sh_bucket(sh, bucket)
        bag == Keep(s0[bucket].bag, eligible_set)
        seen == Keep(s0[bucket].seen, eligible_set)
        new_ids == (eligible_set \ Range(bag)) \ Range(seen)
    IN  UNION {
          IF bag \o p = <<>>
          THEN {[shuffle |-> [s0 EXCEPT ![bucket] = [bag |-> q, seen |-> <<>>]],
                 fresh |-> TRUE] : q \in Shuffles(eligible_set)}
          ELSE {[shuffle |-> [s0 EXCEPT ![bucket] = [bag |-> p \o bag, seen |-> seen]],
                 fresh |-> FALSE]}
          : p \in Shuffles(new_ids)}

\* The newly eligible ids are found but "bag.extend(new_ids)" is left out.
refresh_bucket_drops_new(sh, bucket, eligible_set) ==
    LET s0 == sh_bucket(sh, bucket)
        bag == Keep(s0[bucket].bag, eligible_set)
        seen == Keep(s0[bucket].seen, eligible_set)
    IN  IF bag = <<>>
        THEN {[shuffle |-> [s0 EXCEPT ![bucket] = [bag |-> q, seen |-> <<>>]],
               fresh |-> TRUE] : q \in Shuffles(eligible_set)}
        ELSE {[shuffle |-> [s0 EXCEPT ![bucket] = [bag |-> bag, seen |-> seen]],
               fresh |-> FALSE]}

\* _refresh_bucket: the set of possible results, one per outcome of the
\* shuffles.  fresh tells whether a new cycle was started.
refresh_bucket(sh, bucket, eligible_set) ==
    LET s0 == sh_bucket(sh, bucket)
        bag == Keep(s0[bucket].bag, eligible_set)
        seen == Keep(s0[bucket].seen, eligible_set)
        new_ids == (eligible_set \ Range(bag)) \ Range(seen)
    IN  UNION {
          IF bag \o p = <<>>
          THEN {[shuffle |-> [s0 EXCEPT ![bucket] = [bag |-> q, seen |-> <<>>]],
                 fresh |-> TRUE] : q \in Shuffles(eligible_set)}
          ELSE {[shuffle |-> [s0 EXCEPT ![bucket] = [bag |-> bag \o p, seen |-> seen]],
                 fresh |-> FALSE]}
          : p \in Shuffles(new_ids)}

\* The last second a call of draw_no_repeat can see on the clock.
ReadMax == MaxTime + 1

\* now_epoch() is read again at every call: between two reads the clock may
\* have moved on by an amount of Adv, up to ReadMax.
Reads(t, Adv) == {t + a : a \in {x \in Adv : t + x <= ReadMax}}

\* is_cooled_down reads the clock only when it finds an entry to compare with.
reads_clock(cds, bucket, item_id, cooldown_seconds) ==
    /\ cooldown_seconds > 0
    /\ bucket \in DOMAIN cds
    /\ Str(item_id) \in DOMAIN cds[bucket]

\* The candidate is dropped from the bag in the place of being rotated.
rotate_drops(bag) == Tail(bag)

\* The rotation leaves the candidate at the front.
rotate_in_place(bag) == bag

\* "rotate to end": b["bag"] = b["bag"][1:] + [candidate].
rotate(bag) == Tail(bag) \o <<Head(bag)>>

\* The while loop of draw_no_repeat: rotate not-cooled-down candidates to the
\* end, at most max_attempts times.  The set of possible results, one per
\* course of the clock; chosen is <<>> for None, attempts counts the
\* candidates that were rotated.
RECURSIVE scan(_, _, _, _, _, _, _, _)
scan(cds, bucket, bag, attempts, max_attempts, cooldown_seconds, t, Adv) ==
    IF attempts < max_attempts /\ bag # <<>>
    THEN LET candidate == Head(bag)
             cds2 == is_cooled_down_cds(cds, bucket, cooldown_seconds)
             times == IF reads_clock(cds, bucket, candidate, cooldown_seconds)
                      THEN Reads(t, Adv) ELSE {t}
         IN  UNION {
               IF is_cooled_down(cds, bucket, candidate, cooldown_seconds, t1)
               THEN {[bag |-> bag, chosen |-> <<candidate>>, cooldowns |-> cds2,
                      now |-> t1, attempts |-> attempts]}
               ELSE scan(cds2, bucket, rotate(bag), attempts + 1,
                         max_attempts, cooldown_seconds, t1, Adv)
               : t1 \in times}
    ELSE {[bag |-> bag, chosen |-> <<>>, cooldowns |-> cds, now |-> t,
           attempts |-> attempts]}

\* The body of the for loop after a candidate was chosen: consume it from the
\* front, append it to seen, mark it (mark_searched reads the clock) and
\* append it to picked.
consume(d, bucket, s, mark, Adv) ==
    LET chosen == s.chosen[1]
    IN  {[d EXCEPT !.shuffle[bucket].bag = Tail(s.bag),
                   !.shuffle[bucket].seen = Append(@, chosen),
                   !.cooldowns = record_pick(s.cooldowns, bucket, chosen, mark, t2),
                   !.now = t2,
                   !.picked = Append(@, chosen),
                   !.starts = Append(@, d.cycles)]
         : t2 \in (IF mark THEN Reads(s.now, Adv) ELSE {s.now})}

\* The for loop of draw_no_repeat with k iterations left.  d carries the
\* store (cooldowns, shuffle), the clock, the picked list and, for every pick,
\* the number of cycles started so far in this call (starts).
RECURSIVE draw_loop(_, _, _, _, _, _, _)
draw_loop(d, bucket, eligible_set, k, cooldown_seconds, mark, Adv) ==
    IF k = 0 THEN {d}
    ELSE LET refreshed ==
               IF d.shuffle[bucket].bag = <<>>
               THEN {[d EXCEPT !.shuffle = r.shuffle,
                               !.cycles = @ + (IF r.fresh THEN 1 ELSE 0)]
                     : r \in refresh_bucket(d.shuffle, bucket, eligible_set)}
               ELSE {d}
         IN  UNION {
               IF d1.shuffle[bucket].bag = <<>> THEN {d1}
               ELSE UNION {
                      IF s.chosen = <<>>
                      THEN {[d1 EXCEPT !.cooldowns = s.cooldowns,
                                       !.shuffle[bucket].bag = s.bag,
                                       !.now = s.now]}
                      ELSE UNION {draw_loop(d2, bucket, eligible_set, k - 1,
                                            cooldown_seconds, mark, Adv)
                                  : d2 \in consume(d1, bucket, s, mark, Adv)}
                      : s \in scan(d1.cooldowns, bucket, d1.shuffle[bucket].bag, 0,
                                   Len(d1.shuffle[bucket].bag), cooldown_seconds,
                                   d1.now, Adv)}
               : d1 \in refreshed}

\* draw_no_repeat: the set of possible outcomes of one call.
draw_no_repeat(cds, sh, t, bucket, eligible_ids, count, cooldown_seconds, mark, Adv) ==
    LET quiet == [cooldowns |-> cds, shuffle |-> sh, now |-> t, picked |-> <<>>,
                  starts |-> <<>>, cycles |-> 0, raised |-> FALSE,
                  reconciled |-> FALSE, fresh |-> FALSE]
    IN  IF count <= 0 THEN {quiet}
        ELSE IF \E x \in eligible_ids : IntRaises(x)
        THEN {[quiet EXCEPT !.raised = TRUE]}
        ELSE LET eligible_set == {IntOf(x) : x \in eligible_ids}
             IN  IF eligible_set = {} THEN {quiet}
                 ELSE UNION {
                        draw_loop([quiet EXCEPT !.shuffle = r.shuffle,
                                                !.cycles = IF r.fresh THEN 1 ELSE 0,
                                                !.fresh = r.fresh,
                                                !.reconciled = TRUE],
                                  bucket, eligible_set, range_len(count),
                                  cooldown_seconds, mark, Adv)
                        : r \in refresh_bucket(sh, bucket, eligible_set)}

\* ------------------------------------------------------------ persistence
\* json.dump of a list of ids / json.load of it: the ids travel as JSON values.
JsonList(seq) == [i \in 1..Len(seq) |-> [kind |-> "int", val |-> seq[i]]]

\* json.dump / json.load of a timestamp.
JsonInt(i) == [kind |-> "int", val |-> i]

\* StateStore.save -> atomic_write_json: the document that replaces the file.
save(cds, sh) ==
    [kind |-> "canonical",
     cooldowns |-> [b \in DOMAIN cds |-> [k \in DOMAIN cds[b] |-> JsonInt(cds[b][k])]],
     shuffle |-> [b \in DOMAIN sh |-> [bag |-> JsonList(sh[b].bag),
                                        seen |-> JsonList(sh[b].seen)]]]

\* The temporary file after open(tmp, "w") and written of the MaxChunks writes
\* of json.dump(data).
tmp_file(data, written) == [kind |-> "file", doc |-> data, written |-> written]

\* What a reader of the file f finds: the document once every write is done,
\* text that is not JSON before that.
file_doc(f) ==
    IF f.kind = "file"
    THEN (IF f.written = MaxChunks THEN f.doc ELSE [kind |-> "garbage"])
    ELSE f

\* os.replace is reached with the file closed after a write of one chunk only.
replace_ready_early(f) == f.kind = "file" /\ f.written >= 1

\* atomic_write_json: os.replace(tmp, path) follows the with block, that is
\* after json.dump returned and the file was closed.
replace_ready(f) == f.kind = "file" /\ f.written = MaxChunks

\* The iteration saves only when its work did not raise.
after_work_on_success(raised) == IF raised THEN "sleep" ELSE "save"

\* main: "finally: state.save()" follows the try block and the except
\* branch alike.
after_work(raised) == "save"

\* The draw of a tick leaves the recording to the code that posts.
tick_mark_after_post(dry_run) == FALSE

\* sonarr_run_once, radarr_run_once, lidarr_run_once: every draw of a tick
\* is called with mark = not dry_run.
tick_mark(dry_run) == ~dry_run

\* uniq in norm_bucket: drop later duplicates, keep the order.
RECURSIVE uniq(_)
uniq(seq) ==
    IF seq = <<>> THEN <<>>
    ELSE LET front == uniq(SubSeq(seq, 1, Len(seq) - 1))
             x == seq[Len(seq)]
         IN  IF x \in Range(front) THEN front ELSE Append(front, x)

\* str(x).lstrip("-").isdigit(): digits only, after any leading dashes.
IsDigit(x) == x.kind \in {"int", "numstr", "dashes"}

\* [int(x) for x in lst if str(x).lstrip("-").isdigit()]: the items that
\* pass the test go through int(), which raises on some of them.
IntsOf(lst) ==
    LET kept == SelectSeq(lst, IsDigit)
    IN  IF \E i \in 1..Len(kept) : IntRaises(kept[i])
        THEN [raised |-> TRUE, ints |-> <<>>]
        ELSE [raised |-> FALSE, ints |-> [i \in 1..Len(kept) |-> IntOf(kept[i])]]

\* The state StateStore.__init__ sets before _load runs, and the one the
\* except branch of _load leaves together with a logged warning.
empty_state == [cooldowns |-> EmptyDict, shuffle |-> EmptyDict, warned |-> FALSE]
failed_load == [cooldowns |-> EmptyDict, shuffle |-> EmptyDict, warned |-> TRUE]

\* norm_bucket that forgets the seen list.
norm_bucket_drops_seen(b) ==
    [raised |-> IntsOf(b.bag).raised \/ IntsOf(b.seen).raised,
     bag |-> uniq(IntsOf(b.bag).ints), seen |-> <<>>]

\* norm_bucket in _load: the lists of a bucket as ints, once each; raised
\* when int() raised on an item.
norm_bucket(b) ==
    LET bag == IntsOf(b.bag)
        seen == IntsOf(b.seen)
    IN  IF bag.raised \/ seen.raised
        THEN [raised |-> TRUE, bag |-> <<>>, seen |-> <<>>]
        ELSE [raised |-> FALSE, bag |-> uniq(bag.ints), seen |-> uniq(seen.ints)]

\* StateStore._load on the document doc: the store a new process starts with
\* and whether a warning was logged.  The documents are
\*   absent      no file at state_path (os.path.exists is false)
\*   unreadable  open() raises OSError
\*   garbage     json.load raises (not JSON, or a truncated document)
\*   number      a JSON number other than 0, or true: "cooldowns" in data
\*               raises TypeError
\*   null        JSON null, and 0, false, "" and [] likewise: "or {}" makes
\*               data the empty dict
\*   list, text  a JSON list without the items "cooldowns" and "shuffle", a JSON
\*               string without these words: no dict, the legacy branch finds
\*               no bucket
\*   keylist     a JSON list with the item "cooldowns" or "shuffle"
\*   keytext     a JSON string with the word cooldowns or shuffle in it: the
\*               test of line 110 holds and data.get raises AttributeError
\*   canonical   {"cooldowns": ..., "shuffle": ...}
\*   legacy      {bucket: {id: timestamp}}
load(doc) ==
    CASE doc.kind = "absent" -> empty_state
      [] doc.kind \in {"unreadable", "garbage", "number", "keylist", "keytext"} ->
           failed_load
      [] doc.kind \in {"null", "list", "text"} -> empty_state
      [] doc.kind \in {"canonical", "legacy"} ->
           LET sh == IF doc.kind = "canonical" THEN doc.shuffle ELSE EmptyDict
           IN  IF \/ \E b \in DOMAIN doc.cooldowns : \E k \in DOMAIN doc.cooldowns[b] :
                         IntRaises(doc.cooldowns[b][k])
                  \/ \E b \in DOMAIN sh : norm_bucket(sh[b]).raised
               THEN failed_load
               ELSE [cooldowns |-> [b \in DOMAIN doc.cooldowns |->
                                      [k \in DOMAIN doc.cooldowns[b] |->
                                          IntOf(doc.cooldowns[b][k])]],
                     shuffle |-> [b \in DOMAIN sh |->
                                    LET n == norm_bucket(sh[b])
                                    IN  [bag |-> n.bag, seen |-> n.seen]],
                     warned |-> FALSE]

\* ---------------------------------------------------------------- actions
Idle == [op |-> "init"]

\* One call of StateStore.draw_no_repeat.
Draw(bucket, eligible_ids, count, cooldown_seconds, mark, Adv) ==
    \E o \in draw_no_repeat(cooldowns, shuffle, now, bucket, eligible_ids,
                            count, cooldown_seconds, mark, Adv) :
        /\ cooldowns' = o.cooldowns
        /\ shuffle' = o.shuffle
        /\ now' = o.now
        /\ elig' = IF o.reconciled
                   THEN DictSet(elig, bucket, {IntOf(x) : x \in eligible_ids})
                   ELSE elig
        /\ marked' = IF mark /\ o.picked # <<>>
                     THEN DictSet(marked, bucket,
                            [k \in (IF bucket \in DOMAIN marked THEN DOMAIN marked[bucket] ELSE {})
                                     \cup {Str(x) : x \in Range(o.picked)} |->
                                IF k \in {Str(x) : x \in Range(o.picked)}
                                THEN o.cooldowns[bucket][k] ELSE marked[bucket][k]])
                     ELSE marked
        /\ last' = [op |-> "draw", bucket |-> bucket,
                    eligible |-> {IntOf(x) : x \in {y \in eligible_ids : ~IntRaises(y)}},
                    count |-> count, cooldown |-> cooldown_seconds, mark |-> mark,
                    picked |-> o.picked, raised |-> o.raised,
                    reconciled |-> o.reconciled, fresh |-> o.fresh,
                    starts |-> o.starts, cycles |-> o.cycles]

\* One call of StateStore._refresh_bucket.  again tells whether the call
\* before it was a reconcile of the same bucket against the same set, added
\* how many ids the call found in neither bag nor seen.
Reconcile(bucket, eligible_set) ==
    \E r \in refresh_bucket(shuffle, bucket, eligible_set) :
        /\ shuffle' = r.shuffle
        /\ elig' = DictSet(elig, bucket, eligible_set)
        /\ last' = [op |-> "reconcile", bucket |-> bucket, eligible |-> eligible_set,
                    fresh |-> r.fresh,
                    added |-> Cardinality((eligible_set
                                  \ Range(sh_bucket(shuffle, bucket)[bucket].bag))
                                  \ Range(sh_bucket(shuffle, bucket)[bucket].seen)),
                    again |-> /\ last.op = "reconcile"
                              /\ last.bucket = bucket
                              /\ last.eligible = eligible_set]
        /\ UNCHANGED <<cooldowns, now, disk, pc, marked, fixedE, fixedT, history, tmp, trace>>

\* One call of StateStore.is_cooled_down from outside a draw.
Query(bucket, item_id, cooldown_seconds) ==
    /\ cooldowns' = is_cooled_down_cds(cooldowns, bucket, cooldown_seconds)
    /\ last' = [op |-> "query", bucket |-> bucket, item |-> item_id,
                cooldown |-> cooldown_seconds,
                result |-> is_cooled_down(cooldowns, bucket, item_id,
                                          cooldown_seconds, now)]
    /\ UNCHANGED <<shuffle, now, elig, disk, pc, marked, fixedE, fixedT, history, tmp, trace>>

\* The clock moves on by one second between two operations.
Tick ==
    /\ now < MaxTime
    /\ now' = now + 1
    /\ last' = [op |-> "tick"]
    /\ UNCHANGED <<cooldowns, shuffle, elig, disk, pc, marked, fixedE, fixedT, history, tmp, trace>>

InitStore ==
    /\ cooldowns = EmptyDict
    /\ shuffle = EmptyDict
    /\ now = 0
    /\ last = Idle
    /\ elig = EmptyDict
    /\ disk = [kind |-> "absent"]
    /\ pc = "work"
    /\ marked = EmptyDict
    /\ history = <<>>
    /\ tmp = [kind |-> "absent"]
    /\ trace = <<>>

\* ------------------------------------------- Spec: any draws on one bucket
EligibleInputs ==
    {RawOf(S) : S \in SUBSET Ids}
        \cup {{[kind |-> "int", val |-> 1], [kind |-> "numstr", val |-> 1]},
              {[kind |-> "int", val |-> 1], [kind |-> "bad", val |-> 0]}}

Init == InitStore /\ fixedE = {} /\ fixedT = 0

\* The clock stands still in Spec, so every positive cooldown acts alike.
DrawAny ==
    /\ \E eligible_ids \in EligibleInputs, count \in Counts,
          cooldown_seconds \in {0, 1}, mark \in BOOLEAN :
           Draw(Bucket1, eligible_ids, count, cooldown_seconds, mark, {0})
    /\ UNCHANGED <<disk, pc, fixedE, fixedT, history, tmp, trace>>

Next == DrawAny

Spec == Init /\ [][Next]_vars

\* ------------------------- SpecClock: draws on one bucket as time passes
ClockEligible == {{i} : i \in Ids} \cup {Ids}

DrawClock ==
    /\ \E E \in ClockEligible, count \in 1..MaxCount,
          cooldown_seconds \in CooldownSecs, mark \in BOOLEAN :
           Draw(Bucket1, RawOf(E), count, cooldown_seconds, mark, {0})
    /\ UNCHANGED <<disk, pc, fixedE, fixedT, history, tmp, trace>>

NextClock == DrawClock \/ Tick

SpecClock == Init /\ [][NextClock]_vars

\* ------------- SpecCycle: size-1 committed draws from one fixed eligible set
CycleIds == 1..(MaxId + 1)

InitCycle == InitStore /\ fixedE \in (SUBSET CycleIds) \ {{}} /\ fixedT = 0

DrawCycle ==
    /\ Len(history) <= Cardinality(fixedE)
    /\ Draw(Bucket1, RawOf(fixedE), 1, 0, TRUE, {0})
    /\ history' = history \o last'.picked
    /\ UNCHANGED <<disk, pc, fixedE, fixedT, tmp, trace>>

NextCycle == DrawCycle \/ Tick

SpecCycle == InitCycle /\ [][NextCycle]_vars

\* ------------- SpecBatch: draws of any size from one fixed eligible set
\* Cooldown 0, committed or dry; history collects the returned ids in order.
DrawBatch ==
    /\ Len(history) <= Cardinality(fixedE)
    /\ \E count \in 1..MaxCount, mark \in BOOLEAN :
           Draw(Bucket1, RawOf(fixedE), count, 0, mark, {0})
    /\ history' = history \o last'.picked
    /\ UNCHANGED <<disk, pc, fixedE, fixedT, tmp, trace>>

NextBatch == DrawBatch \/ Tick

SpecBatch == InitCycle /\ [][NextBatch]_vars

\* ------------------------ the main loop, the state file and restarts
\* A draw of the tick in progress (mark = not dry_run, here a real run).
MainDraw ==
    /\ pc = "work"
    /\ \E E \in ClockEligible, count \in 1..MaxCount, cooldown_seconds \in 1..MaxCooldown :
           Draw(Bucket1, RawOf(E), count, cooldown_seconds, TRUE, {0})
    /\ UNCHANGED <<disk, pc, fixedE, fixedT, history, tmp, trace>>

\* The process dies (at any point of a tick or of the sleep) and is started
\* again: StateStore.__init__ loads the state file.
Restart ==
    /\ LET loaded == load(disk)
       IN  /\ cooldowns' = loaded.cooldowns
           /\ shuffle' = loaded.shuffle
           /\ last' = [op |-> "restart", warned |-> loaded.warned]
    /\ pc' = "work"
    /\ trace' = <<>>
    /\ UNCHANGED <<now, elig, disk, marked, fixedE, fixedT, history, tmp>>

\* ------------- SpecLoop: main-loop iterations with the steps of each save
\* A draw of the iteration in progress.
LoopDraw ==
    /\ pc = "work"
    /\ Len(trace) < MaxDraws
    /\ \E E \in ClockEligible, cooldown_seconds \in CooldownSecs :
           Draw(Bucket1, RawOf(E), 1, cooldown_seconds, TRUE, {0})
    /\ trace' = Append(trace, "draw")
    /\ UNCHANGED <<disk, pc, fixedE, fixedT, history, tmp>>

\* The try block of main ends: it ran to its end (raised = FALSE), or a call
\* in it raised an Exception, which the except branch logs.
LoopWorkEnds ==
    /\ pc = "work"
    /\ \E raised \in BOOLEAN :
          /\ pc' = after_work(raised)
          /\ trace' = Append(trace, IF raised THEN "raise" ELSE "done")
          /\ last' = [op |-> "work_ends", raised |-> raised]
    /\ UNCHANGED <<cooldowns, shuffle, now, elig, disk, marked, fixedE, fixedT, history, tmp>>

\* save -> atomic_write_json: open(tmp, "w") creates or truncates the
\* temporary file.
SaveOpen ==
    /\ pc = "save"
    /\ tmp' = tmp_file(save(cooldowns, shuffle), 0)
    /\ pc' = "write"
    /\ last' = [op |-> "open"]
    /\ UNCHANGED <<cooldowns, shuffle, now, elig, disk, marked, fixedE, fixedT, history, trace>>

\* json.dump writes the next chunk of the document to the temporary file.
SaveWrite ==
    /\ pc = "write"
    /\ tmp.written < MaxChunks
    /\ tmp' = tmp_file(tmp.doc, tmp.written + 1)
    /\ last' = [op |-> "write"]
    /\ UNCHANGED <<cooldowns, shuffle, now, elig, disk, pc, marked, fixedE, fixedT, history, trace>>

\* os.replace(tmp, path): the temporary file becomes the state file.  save
\* returns and the iteration goes to sleep.
SaveReplace ==
    /\ pc = "write"
    /\ replace_ready(tmp)
    /\ disk' = file_doc(tmp)
    /\ tmp' = [kind |-> "absent"]
    /\ pc' = "sleep"
    /\ trace' = Append(trace, "save")
    /\ last' = [op |-> "save"]
    /\ UNCHANGED <<cooldowns, shuffle, now, elig, marked, fixedE, fixedT, history>>

\* ensure_dir, open, a write or os.replace raises (a full or read-only
\* disk): save logs a warning and returns, the state file is as it was.
SaveFails ==
    /\ pc \in {"save", "write"}
    /\ pc' = "sleep"
    /\ trace' = Append(trace, "save")
    /\ last' = [op |-> "save_failed"]
    /\ UNCHANGED <<cooldowns, shuffle, now, elig, disk, marked, fixedE, fixedT, history, tmp>>

\* sleep_loop() returns and the next iteration begins.
LoopSleep ==
    /\ pc = "sleep"
    /\ now < MaxTime
    /\ now' = now + 1
    /\ pc' = "work"
    /\ trace' = <<>>
    /\ last' = [op |-> "sleep", ended |-> trace]
    /\ UNCHANGED <<cooldowns, shuffle, elig, disk, marked, fixedE, fixedT, history, tmp>>

NextLoop ==
    \/ LoopDraw
    \/ LoopWorkEnds
    \/ SaveOpen
    \/ SaveWrite
    \/ SaveReplace
    \/ SaveFails
    \/ LoopSleep

SpecLoop == Init /\ [][NextLoop]_vars

\* ------ SpecMain: ticks of any number of draws, restarts, a free clock
\* The process can die at any point of a tick, of a save or of the sleep:
\* a death inside the save leaves the temporary file as it is then.
NextMain ==
    \/ MainDraw
    \/ LoopWorkEnds
    \/ SaveOpen
    \/ SaveWrite
    \/ SaveReplace
    \/ SaveFails
    \/ LoopSleep
    \/ Restart
    \/ Tick

SpecMain == Init /\ [][NextMain]_vars

\* ---- SpecSave: one iteration and its save per process life, with crashes
\* The process can die at every step, a step of the save included, and is
\* started again at once; the clock stands still.
NextSave ==
    \/ LoopDraw
    \/ LoopWorkEnds
    \/ SaveOpen
    \/ SaveWrite
    \/ SaveReplace
    \/ SaveFails
    \/ Restart

SpecSave == Init /\ [][NextSave]_vars

\* ----------- SpecLoad: a process starts on a state file of any content
\* The values a timestamp can have in a document: an int, a numeric string,
\* or something int() raises on.
TsVals ==
    {JsonInt(t) : t \in 0..MaxTime}
        \cup {[kind |-> "numstr", val |-> 0], [kind |-> "bad", val |-> 0]}

DocLists == UNION {[1..n -> RawIds] : n \in 0..MaxLen}

DocCooldowns ==
    {EmptyDict}
        \cup {[b \in {Bucket1} |-> m] :
                 m \in {EmptyDict} \cup {[k \in {Str(1)} |-> v] : v \in TsVals}}

\* The cycle state of a document: no bucket, or one bucket whose bag and
\* seen lists hold MaxLen + 2 items at most between them.
DocShuffles ==
    {EmptyDict}
        \cup {[b \in {Bucket1} |-> [bag |-> p[1], seen |-> p[2]]] :
                 p \in {q \in DocLists \X DocLists : Len(q[1]) + Len(q[2]) <= MaxLen + 2}}

Docs ==
    {[kind |-> k] : k \in {"absent", "unreadable", "garbage", "number", "null",
                            "list", "text", "keylist", "keytext"}}
        \cup {[kind |-> "canonical", cooldowns |-> c, shuffle |-> h] :
                 c \in DocCooldowns, h \in DocShuffles}
        \cup {[kind |-> "legacy", cooldowns |-> c] : c \in DocCooldowns}

InitLoad ==
    /\ cooldowns = EmptyDict
    /\ shuffle = EmptyDict
    /\ now = 0
    /\ last = Idle
    /\ elig = EmptyDict
    /\ disk \in Docs
    /\ pc = "work"
    /\ marked = EmptyDict
    /\ fixedE = {}
    /\ fixedT = 0
    /\ history = <<>>
    /\ tmp = [kind |-> "absent"]
    /\ trace = <<>>

SpecLoad == InitLoad /\ [][Restart]_vars

\* ------------------- SpecTwo: draws on two buckets that use the same ids
\* Size-1 committed draws; the clock stands still, so every positive cooldown
\* acts alike.
DrawTwo ==
    /\ \E bucket \in {Bucket1, Bucket2}, E \in ClockEligible, cooldown_seconds \in {0, 1} :
           Draw(bucket, RawOf(E), 1, cooldown_seconds, TRUE, {0})
    /\ UNCHANGED <<disk, pc, fixedE, fixedT, history, tmp, trace>>

SpecTwo == Init /\ [][DrawTwo]_vars

\* ---- SpecReconcile: reconciles and draws on a bucket of any loaded state
\* The store starts as _load leaves it on a canonical document.
InitReconcile ==
    /\ cooldowns = EmptyDict
    /\ shuffle \in {load(d).shuffle :
                       d \in {x \in Docs : x.kind = "canonical" /\ x.cooldowns = EmptyDict}}
    /\ now = 0
    /\ last = Idle
    /\ elig = EmptyDict
    /\ disk = [kind |-> "absent"]
    /\ pc = "work"
    /\ marked = EmptyDict
    /\ fixedE = {}
    /\ fixedT = 0
    /\ history = <<>>
    /\ tmp = [kind |-> "absent"]
    /\ trace = <<>>

ReconcileAny == \E E \in SUBSET Ids : Reconcile(Bucket1, E)

\* A size-1 dry draw with cooldown 0 between reconciles.
ReconcileDraw ==
    /\ \E E \in ClockEligible : Draw(Bucket1, RawOf(E), 1, 0, FALSE, {0})
    /\ UNCHANGED <<disk, pc, fixedE, fixedT, history, tmp, trace>>

NextReconcile == ReconcileAny \/ ReconcileDraw

SpecReconcile == InitReconcile /\ [][NextReconcile]_vars

\* ---- SpecScan: draws from one fixed eligible set while the clock runs
\* Committed draws of one or two ids with a cooldown of one or two seconds.
\* Every read of the clock may find it one second later, so that a scan meets
\* ids within and past their cooldown window.  history holds the bag as the
\* last call found it.
DrawScan ==
    /\ \E count \in {1, 2}, cooldown_seconds \in {1, 2} :
           Draw(Bucket1, RawOf(fixedE), count, cooldown_seconds, TRUE, {0, 1})
    /\ history' = sh_bucket(shuffle, Bucket1)[Bucket1].bag
    /\ UNCHANGED <<disk, pc, fixedE, fixedT, tmp, trace>>

SpecScan == InitCycle /\ [][DrawScan]_vars

\* ---- SpecQuery: cooldown queries between committed draws and clock ticks
QueryAny ==
    \E bucket \in {Bucket1, Bucket2}, item_id \in Ids, cooldown_seconds \in CooldownSecs :
        Query(bucket, item_id, cooldown_seconds)

\* A size-1 committed draw on the first bucket.
QueryDraw ==
    /\ \E E \in ClockEligible, cooldown_seconds \in CooldownSecs :
           Draw(Bucket1, RawOf(E), 1, cooldown_seconds, TRUE, {0})
    /\ UNCHANGED <<disk, pc, fixedE, fixedT, history, tmp, trace>>

NextQuery == QueryAny \/ QueryDraw \/ Tick

SpecQuery == Init /\ [][NextQuery]_vars

\* ---- SpecPartition: reconciles and draws of any kind from the empty state
\* The clock stands still, so every positive cooldown acts alike.
PartitionDraw ==
    /\ \E E \in SUBSET Ids, count \in 0..MaxCount,
          cooldown_seconds \in {0, 1}, mark \in BOOLEAN :
           Draw(Bucket1, RawOf(E), count, cooldown_seconds, mark, {0})
    /\ UNCHANGED <<disk, pc, fixedE, fixedT, history, tmp, trace>>

NextPartition == ReconcileAny \/ PartitionDraw

SpecPartition == Init /\ [][NextPartition]_vars

\* ---- SpecLive: committed draws from one fixed eligible set with one fixed
\* cooldown, for ever
\* Time is measured from the present second: now stays 0 and a passing second
\* moves every timestamp one second into the past.  A timestamp is not moved
\* further back than LiveCooldown seconds, the age from which on
\* is_cooled_down answers alike for every cooldown of SpecLive.
LiveCooldown == MaxCooldown + 1

InitLive ==
    /\ InitStore
    /\ fixedE \in (SUBSET Ids) \ {{}}
    /\ fixedT \in 0..LiveCooldown

LiveDraw ==
    /\ \E count \in 1..MaxCount :
           Draw(Bucket1, RawOf(fixedE), count, fixedT, TRUE, {0})
    /\ UNCHANGED <<disk, pc, fixedE, fixedT, history, tmp, trace>>

\* The timestamps of a cooldowns mapping one second later.
Aged(cds) ==
    IF Bucket1 \in DOMAIN cds
    THEN [cds EXCEPT ![Bucket1] = [k \in DOMAIN @ |->
                                     IF @[k] > now - LiveCooldown THEN @[k] - 1 ELSE @[k]]]
    ELSE cds

\* One second passes.
LiveTick ==
    /\ cooldowns' = Aged(cooldowns)
    /\ marked' = Aged(marked)
    /\ last' = [op |-> "tick"]
    /\ UNCHANGED <<shuffle, now, elig, disk, pc, fixedE, fixedT, history, tmp, trace>>

NextLive == LiveDraw \/ LiveTick

\* The draws go on and the clock goes on.
SpecLive == InitLive /\ [][NextLive]_vars /\ WF_vars(LiveDraw) /\ WF_vars(LiveTick)

\* ------------------------------------------------------------ properties
\* ------- SpecPost: ticks that post one search command per picked id
\* A pass of sonarr_run_once in a real run (dry_run = False): the draw, then
\* "for sid in picked" with history the ids whose command is still to post.
PostDraw ==
    /\ pc = "work"
    /\ Len(trace) < MaxDraws
    /\ \E E \in ClockEligible, count \in 1..MaxCount, cooldown_seconds \in {0, 1} :
           Draw(Bucket1, RawOf(E), count, cooldown_seconds, tick_mark(FALSE), {0})
    /\ history' = last'.picked
    /\ pc' = IF last'.picked = <<>> THEN "work" ELSE "post"
    /\ trace' = Append(trace, "draw")
    /\ UNCHANGED <<disk, fixedE, fixedT, tmp>>

\* The draw the posts in progress belong to.
DrawOf(l) == IF l.op = "draw" THEN l ELSE l.draw

\* client.post_json("/command", payload) returns for the next picked id; the
\* pass ends with the last of them.
PostSent ==
    /\ pc = "post"
    /\ history # <<>>
    /\ history' = Tail(history)
    /\ pc' = IF Tail(history) = <<>> THEN "work" ELSE "post"
    /\ trace' = Append(trace, "post")
    /\ last' = [op |-> "post", ok |-> TRUE, item |-> Head(history), draw |-> DrawOf(last)]
    /\ UNCHANGED <<cooldowns, shuffle, now, elig, disk, marked, fixedE, fixedT, tmp>>

\* client.post_json raises (raise_for_status, a timeout): the exception
\* leaves the pass and the try block of main, whose except branch logs it.
PostFails ==
    /\ pc = "post"
    /\ history # <<>>
    /\ pc' = after_work(TRUE)
    /\ trace' = Append(trace, "raise")
    /\ last' = [op |-> "post", ok |-> FALSE, item |-> Head(history), draw |-> DrawOf(last)]
    /\ UNCHANGED <<cooldowns, shuffle, now, elig, disk, marked, fixedE, fixedT, history, tmp>>

\* sleep_loop() returns and the next tick begins; picked is a local of the
\* pass and is gone.
PostSleep ==
    /\ pc = "sleep"
    /\ now < MaxTime
    /\ now' = now + 1
    /\ pc' = "work"
    /\ trace' = <<>>
    /\ history' = <<>>
    /\ last' = [op |-> "sleep", ended |-> trace]
    /\ UNCHANGED <<cooldowns, shuffle, elig, disk, marked, fixedE, fixedT, tmp>>

NextPost ==
    \/ PostDraw
    \/ PostSent
    \/ PostFails
    \/ LoopWorkEnds
    \/ SaveOpen
    \/ SaveWrite
    \/ SaveReplace
    \/ SaveFails
    \/ PostSleep

SpecPost == Init /\ [][NextPost]_vars

Bag(sh, bucket) == IF bucket \in DOMAIN sh THEN sh[bucket].bag ELSE <<>>
Seen(sh, bucket) == IF bucket \in DOMAIN sh THEN sh[bucket].seen ELSE <<>>
Min(a, b) == IF a < b THEN a ELSE b

\* C1: n size-1 committed draws with cooldown 0 on a fixed set E of n ids,
\* from a bucket without prior state, return one id each, and the first n
\* returned ids are all of E, each exactly once.
C1_NoRepeatWithinCycle ==
    LET n == Cardinality(fixedE)
        m == Min(Len(history), n)
    IN  /\ last.op = "draw" => Len(last.picked) = 1
        /\ \A i, j \in 1..m : history[i] = history[j] => i = j
        /\ \A i \in 1..Len(history) : history[i] \in fixedE
        /\ Len(history) >= n => {history[i] : i \in 1..n} = fixedE

\* The n-th draw of the largest fixed set has just returned.
C1_Witness ==
    /\ Cardinality(fixedE) = MaxId + 1
    /\ Len(history) = Cardinality(fixedE)
    /\ last.op = "draw"

\* C8: in every state reached from the empty state by draws, bag and seen of
\* every bucket are duplicate-free, disjoint, and within the eligible set the
\* bucket was last reconciled against.
C8_CycleStateInvariant ==
    \A b \in DOMAIN shuffle :
        /\ NoDups(shuffle[b].bag)
        /\ NoDups(shuffle[b].seen)
        /\ Range(shuffle[b].bag) \cap Range(shuffle[b].seen) = {}
        /\ b \in DOMAIN elig
        /\ Range(shuffle[b].bag) \cup Range(shuffle[b].seen) \subseteq elig[b]

\* A draw that began a new cycle in mid-call left ids both in bag and in seen.
C8_Witness ==
    /\ last.op = "draw" /\ last.cycles >= 1 /\ Len(last.picked) >= 2
    /\ Bag(shuffle, Bucket1) # <<>>
    /\ Seen(shuffle, Bucket1) # <<>>

\* C9: a draw returns at most count ids, all of them members of the
\* eligible_ids of the call, and nothing when count <= 0 or eligible_ids is
\* empty.
C9_ResultBounded ==
    (last.op = "draw" /\ ~last.raised) =>
        /\ last.count > 0 => Len(last.picked) <= last.count
        /\ Range(last.picked) \subseteq last.eligible
        /\ (last.count <= 0 \/ last.eligible = {}) => last.picked = <<>>

\* A draw returned exactly count >= 2 ids.
C9_Witness ==
    /\ last.op = "draw" /\ last.count >= 2
    /\ Len(last.picked) = last.count

\* C10 (as claimed): no call of draw ends in an error, whatever eligible_ids
\* holds.
C10_NeverRaises == last.op = "draw" => ~last.raised

\* The cooldown entries of a store: (bucket, key, timestamp) triples.
Entries(cds) ==
    UNION {{<<b, k, cds[b][k]>> : k \in DOMAIN cds[b]} : b \in DOMAIN cds}

HasEntry(cds, bucket, x) ==
    bucket \in DOMAIN cds /\ Str(x) \in DOMAIN cds[bucket]

\* The picks a call made since the last cycle start of that call.
TailPicks(l) ==
    LET from == CHOOSE i \in 1..(Len(l.picked) + 1) :
                    /\ \A j \in i..Len(l.picked) : l.starts[j] = l.cycles
                    /\ \A j \in 1..(i - 1) : l.starts[j] < l.cycles
    IN  SubSeq(l.picked, from, Len(l.picked))

IsSuffix(t, s) ==
    Len(t) <= Len(s) /\ SubSeq(s, Len(s) - Len(t) + 1, Len(s)) = t

\* C2 (as claimed): a draw with cooldown T > 0 never returns an id whose last
\* committed selection is less than T seconds old, restarts included.
C2_NoReselectWithinCooldown ==
    [][(last'.op = "draw" /\ last'.cooldown > 0) =>
          \A x \in Range(last'.picked) :
              HasEntry(marked, last'.bucket, x) =>
                  now' - marked[last'.bucket][Str(x)] >= last'.cooldown]_vars

\* C3: an id that is in seen and in the eligible set of a draw is returned by
\* that draw only after the call started a new cycle; without a cycle start
\* it stays in seen; and a cycle starts at the first reconcile only when
\* every id of the eligible set is in seen.
C3_NoRepeatUnderDrift ==
    [][(last'.op = "draw") =>
          LET l == last'
              seen0 == Range(Seen(shuffle, l.bucket))
          IN  /\ ~l.reconciled => shuffle' = shuffle
              /\ l.reconciled =>
                   /\ \A x \in seen0 \cap l.eligible :
                        /\ \A i \in 1..Len(l.picked) :
                               l.picked[i] = x => l.starts[i] >= 1
                        /\ l.cycles = 0 => x \in Range(Seen(shuffle', l.bucket))
                   /\ l.fresh => l.eligible \subseteq seen0]_vars

\* A draw on a changed eligible set returned an id while an id returned
\* earlier in the cycle stayed in seen.
C3_Witness ==
    /\ last.op = "draw" /\ last.reconciled /\ last.cycles = 0
    /\ Len(last.picked) = 1
    /\ Len(Seen(shuffle, Bucket1)) = 2
    /\ Bag(shuffle, Bucket1) = <<>>

\* C4: a draw with mark = false leaves every cooldown entry as it was, and
\* still moves the cycle on: the ids picked since the call's last cycle start
\* are the tail of seen and are gone from the bag.
C4_DryRunKeepsCooldowns ==
    [][(last'.op = "draw" /\ ~last'.mark) =>
          /\ Entries(cooldowns') = Entries(cooldowns)
          /\ IsSuffix(TailPicks(last'), Seen(shuffle', last'.bucket))
          /\ Range(TailPicks(last')) \cap Range(Bag(shuffle', last'.bucket)) = {}
          /\ last'.cycles = 0 =>
                Seen(shuffle', last'.bucket)
                    = Keep(Seen(shuffle, last'.bucket), last'.eligible) \o last'.picked]_vars

\* A dry draw returned an id whose cooldown entry is older than the clock.
C4_Witness ==
    /\ last.op = "draw" /\ ~last.mark /\ last.picked # <<>>
    /\ \E x \in Range(last.picked) :
          /\ HasEntry(cooldowns, Bucket1, x)
          /\ cooldowns[Bucket1][Str(x)] < now

\* What a draw on the one-id eligible set of l answers the cooldown test at
\* the clock reading t.
OnlyIdCooled(l, t) ==
    LET x == CHOOSE y \in l.eligible : TRUE
    IN  \/ l.cooldown <= 0
        \/ ~HasEntry(cooldowns, l.bucket, x)
        \/ t - cooldowns[l.bucket][Str(x)] >= l.cooldown

\* The sequence of n copies of x.
Copies(x, n) == [i \in 1..n |-> x]

\* C5 (as claimed): after a committed pick of x, with eligible set {x} and a
\* cooldown T > 0, a draw returns the empty list while the entry of x is
\* younger than T, and returns [x] once it is at least T old.
C5_ReturnsOnlyIdOnce ==
    [][(/\ last'.op = "draw" /\ last'.count >= 1 /\ last'.cooldown > 0
        /\ Cardinality(last'.eligible) = 1
        /\ \A x \in last'.eligible : HasEntry(cooldowns, last'.bucket, x)) =>
          LET l == last'
              x == CHOOSE y \in l.eligible : TRUE
          IN  IF OnlyIdCooled(l, now') THEN l.picked = <<x>> ELSE l.picked = <<>>]_vars

\* C5 (amended): with eligible set {x} and count >= 1, a draw returns the
\* empty list when x is within its cooldown window, that is unless
\* cooldown_seconds <= 0, or x has no cooldown entry, or the entry is at least
\* cooldown_seconds old.  Otherwise it returns x and nothing else: once when
\* the draw is committed with cooldown_seconds > 0 (the pick puts x inside its
\* window), and count times when the draw is a dry run or cooldown_seconds is
\* 0 or less, since the bag runs empty after each pick and a new cycle starts
\* inside the call.
C5_CooldownGating ==
    [][(last'.op = "draw" /\ last'.count >= 1 /\ Cardinality(last'.eligible) = 1) =>
          LET l == last'
              x == CHOOSE y \in l.eligible : TRUE
              n == IF l.mark /\ l.cooldown > 0 THEN 1 ELSE l.count
          IN  IF OnlyIdCooled(l, now') THEN l.picked = Copies(x, n) ELSE l.picked = <<>>]_vars

\* A dry draw of two returned the only eligible id twice once its entry was
\* old enough.
C5_Witness ==
    /\ last.op = "draw" /\ last.cooldown > 0 /\ ~last.mark /\ last.count = 2
    /\ \E x \in Ids :
          /\ last.eligible = {x} /\ last.picked = <<x, x>>
          /\ HasEntry(cooldowns, Bucket1, x)
          /\ now - cooldowns[Bucket1][Str(x)] >= last.cooldown

\* C6: the first reconcile of a draw starts a new cycle exactly when no
\* eligible id is left in the bag and none is new; a new cycle holds all of
\* the eligible set with seen emptied, and otherwise seen is kept.  After a
\* set E is exhausted, a size-1 draw with cooldown 0 starts a new cycle, can
\* return every id of E, and leaves seen = [that id], bag = E minus that id.
C6_CycleReset ==
    [][(last'.op = "draw" /\ last'.reconciled) =>
          LET l == last'
              E == l.eligible
              bag0 == Bag(shuffle, l.bucket)
              seen0 == Seen(shuffle, l.bucket)
              exhausted == /\ Range(bag0) \cap E = {}
                           /\ (E \ Range(bag0)) \ Range(seen0) = {}
              bag1 == Bag(shuffle', l.bucket)
              seen1 == Seen(shuffle', l.bucket)
          IN  /\ l.fresh <=> exhausted
              /\ (l.fresh /\ l.cycles = 1) =>
                    /\ seen1 = l.picked
                    /\ Range(bag1) = E \ Range(l.picked)
                    /\ Len(bag1) + Len(seen1) = Cardinality(E)
              /\ l.cycles = 0 => seen1 = Keep(seen0, E) \o l.picked
              /\ (exhausted /\ l.count = 1 /\ l.cooldown <= 0) =>
                    /\ Len(l.picked) = 1
                    /\ {o.picked : o \in draw_no_repeat(cooldowns, shuffle, now, l.bucket,
                                             RawOf(E), 1, l.cooldown, l.mark, {0})}
                          = {<<x>> : x \in E}]_vars

\* A size-1 draw on an exhausted set of MaxId ids has begun the next cycle.
C6_Witness ==
    /\ last.op = "draw" /\ last.fresh /\ last.count = 1 /\ last.cooldown = 0
    /\ last.eligible = Ids
    /\ Len(last.picked) = 1
    /\ Seen(shuffle, Bucket1) = last.picked
    /\ Len(Bag(shuffle, Bucket1)) = MaxId - 1
    /\ HasEntry(cooldowns, Bucket1, last.picked[1])

\* C7 (as claimed): every draw call, whatever its count and also with an
\* empty eligible_ids, removes from bag and seen the ids missing from its
\* eligible_ids.
C7_EveryCallPurges ==
    [][(last'.op = "draw" /\ ~last'.raised) =>
          (Range(Bag(shuffle', last'.bucket)) \cup Range(Seen(shuffle', last'.bucket)))
              \subseteq last'.eligible]_vars

\* C7 (amended): a draw call with count > 0 and a non-empty eligible_ids
\* removes from bag and seen the ids missing from eligible_ids; a call with
\* count <= 0 or an empty eligible_ids leaves bag and seen as they were; no
\* call returns an id outside its eligible_ids; and an eligible id that a
\* reconciling call finds in neither bag nor seen is put in the bag as new.
C7_ReconcilePurges ==
    [][(last'.op = "draw" /\ ~last'.raised) =>
          LET l == last'
              bag0 == Bag(shuffle, l.bucket)
              seen0 == Seen(shuffle, l.bucket)
              bag1 == Bag(shuffle', l.bucket)
              seen1 == Seen(shuffle', l.bucket)
          IN  /\ Range(l.picked) \subseteq l.eligible
              /\ (l.count > 0 /\ l.eligible # {}) <=> l.reconciled
              /\ l.reconciled => Range(bag1) \cup Range(seen1) \subseteq l.eligible
              /\ ~l.reconciled => shuffle' = shuffle
              /\ (l.reconciled /\ ~l.fresh) =>
                    \A x \in (l.eligible \ Range(bag0)) \ Range(seen0) :
                        /\ x \notin Range(Keep(seen0, l.eligible))
                        /\ x \in Range(bag1) \cup Range(l.picked)]_vars

\* A reconciling draw dropped an id that was in seen and is not eligible now,
\* while the bag still held an id.
C7_Witness ==
    /\ last.op = "draw" /\ last.reconciled /\ ~last.fresh
    /\ Cardinality(last.eligible) = 1
    /\ last.picked = <<>>
    /\ Len(Bag(shuffle, Bucket1)) = 1
    /\ Seen(shuffle, Bucket1) = <<>>
    /\ \E x \in Ids \ last.eligible : HasEntry(cooldowns, Bucket1, x)

\* C11: with cooldown 0 and a non-empty eligible set, a draw with count > 0
\* returns exactly count ids, the bag being reset in mid-call when it
\* empties.  On a fixed set of 3 ids: the first draw of 2 returns 2 distinct
\* ids, the second draw of 2 returns the one id not yet returned and then an
\* id of a fresh cycle, which can be any id of the set.
C11_ExactCountWithoutCooldown ==
    [][(last'.op = "draw" /\ ~last'.raised /\ last'.cooldown <= 0
            /\ last'.count > 0 /\ last'.eligible # {}) =>
          LET l == last'
              E == l.eligible
          IN  /\ Len(l.picked) = l.count
              /\ (history = <<>> /\ Cardinality(E) = 3 /\ l.count = 2) =>
                    /\ l.picked[1] # l.picked[2]
                    /\ l.starts = <<0, 0>>
              /\ (Len(history) = 2 /\ Cardinality(E) = 3 /\ l.count = 2) =>
                    /\ {l.picked[1]} = E \ Range(history)
                    /\ l.picked[2] \in E
                    /\ l.starts = <<0, 1>>
                    /\ {o.picked[2] : o \in draw_no_repeat(cooldowns, shuffle, now, l.bucket,
                                                RawOf(E), 2, l.cooldown, l.mark, {0})} = E]_vars

\* The second draw of 2 on {1,2,3} returned the same id twice: the last id
\* of the cycle and again as the first id of the fresh cycle.
C11_Witness ==
    /\ last.op = "draw" /\ last.count = 2 /\ fixedE = {1, 2, 3}
    /\ Len(history) = 4
    /\ last.starts = <<0, 1>>
    /\ last.picked[1] = last.picked[2]
    /\ Seen(shuffle, Bucket1) = <<last.picked[2]>>

\* C12: save followed by load (a new StateStore on the same path) yields an
\* equal state: the same buckets, cooldown entries, bag order and seen list,
\* and no warning.  Stated for the restart that follows a completed save and
\* for the document every completed save leaves in the state file.
C12_SaveLoadRoundTrip ==
    [][/\ (last.op = "save" /\ last'.op = "restart") =>
              /\ cooldowns' = cooldowns
              /\ shuffle' = shuffle
              /\ ~last'.warned
       /\ last'.op = "save" =>
              /\ load(disk').cooldowns = cooldowns'
              /\ load(disk').shuffle = shuffle'
              /\ ~load(disk').warned]_vars

\* A process started on the file a save wrote holds cooldown entries, a bag
\* and a seen list equal to the saved ones.
C12_Witness ==
    /\ last.op = "restart" /\ ~last.warned
    /\ disk = save(cooldowns, shuffle)
    /\ Bag(shuffle, Bucket1) # <<>>
    /\ Seen(shuffle, Bucket1) # <<>>
    /\ \E x \in Ids : HasEntry(cooldowns, Bucket1, x)

\* C13: at every step of a save, and at a crash at any of those steps, the
\* state file holds the complete document saved before or the complete new
\* one; the state file changes only in the step that replaces it with the
\* fully written temporary file.
C13_AtomicReplace ==
    [][/\ disk'.kind \in {"absent", "canonical"}
       /\ disk' # disk =>
              /\ last'.op = "save"
              /\ disk' = save(cooldowns, shuffle)
              /\ tmp.kind = "file" /\ tmp.written = MaxChunks /\ tmp.doc = disk'
              /\ tmp'.kind = "absent"
       /\ (tmp' # tmp /\ tmp'.kind = "file") => disk' = disk]_vars

\* The process died in the middle of the writes: the temporary file is
\* partial and the state file still holds the older complete document.
C13_Witness ==
    /\ last.op = "restart"
    /\ tmp.kind = "file" /\ tmp.written >= 1 /\ tmp.written < MaxChunks
    /\ disk.kind = "canonical"
    /\ disk # tmp.doc
    /\ load(disk).shuffle = shuffle

\* C14: an iteration of the main loop reaches its sleep only through one
\* save, which comes last, after every draw of the iteration and after the
\* try block ended, be it normally or by an exception; no draw follows the
\* end of the try block or the save.
C14_TickEndsWithOneSave ==
    LET n == Len(trace)
        saves == {i \in 1..n : trace[i] = "save"}
        ends == {i \in 1..n : trace[i] \in {"done", "raise"}}
    IN  /\ pc = "sleep" <=> saves # {}
        /\ pc \in {"save", "write"} <=> (ends # {} /\ saves = {})
        /\ saves \subseteq {n}
        /\ Cardinality(ends) <= 1
        /\ \A i \in ends : \A j \in 1..n : trace[j] = "draw" => j < i
        /\ \A i \in saves : i - 1 \in ends
        /\ last.op = "sleep" =>
              /\ trace = <<>>
              /\ Len(last.ended) >= 2
              /\ last.ended[Len(last.ended)] = "save"
              /\ last.ended[Len(last.ended) - 1] \in {"done", "raise"}

\* An iteration whose work raised after a draw has saved and slept.
C14_Witness ==
    /\ last.op = "sleep"
    /\ last.ended = <<"draw", "raise", "save">>
    /\ disk.kind = "canonical"

\* The document holds a timestamp int() raises on.
BadTimestamp(doc) ==
    /\ doc.kind \in {"canonical", "legacy"}
    /\ \E b \in DOMAIN doc.cooldowns : \E k \in DOMAIN doc.cooldowns[b] :
           IntRaises(doc.cooldowns[b][k])

\* The document holds a bag or seen item of digits and dashes that int()
\* raises on.
BadItem(doc) ==
    /\ doc.kind = "canonical"
    /\ \E b \in DOMAIN doc.shuffle : \E lst \in {doc.shuffle[b].bag, doc.shuffle[b].seen} :
           \E i \in 1..Len(lst) : lst[i].kind = "dashes"

\* The document is an object whose timestamps and list items int() reads.
Readable(doc) ==
    doc.kind \in {"canonical", "legacy"} /\ ~BadTimestamp(doc) /\ ~BadItem(doc)

StoreIsEmpty == cooldowns = EmptyDict /\ shuffle = EmptyDict

\* C15: a process started on an absent, unreadable or malformed document
\* (anything but a JSON object whose timestamps and list items int() reads)
\* has the empty state and has logged a warning.
C15_WarnsOnEveryBadDocument ==
    (last.op = "restart" /\ ~Readable(disk)) => (StoreIsEmpty /\ last.warned)

\* The dict m with every key but k removed.
Only(m, k) == IF k \in DOMAIN m THEN DictSet(EmptyDict, k, m[k]) ELSE EmptyDict

\* The dict m with the value of key k, if it has one, replaced by v.
Blank(m, k, v) == IF k \in DOMAIN m THEN [m EXCEPT ![k] = v] ELSE m

\* What a draw on bucket returns and leaves in that bucket.
Outcome(o, bucket) ==
    [picked |-> o.picked,
     bag |-> Bag(o.shuffle, bucket),
     seen |-> Seen(o.shuffle, bucket),
     entries |-> Entries(Only(o.cooldowns, bucket))]

\* C16: a draw on bucket b leaves the bag, seen and cooldown entries of
\* every other bucket as they were, and what it can return and leave in b is
\* the same as from the state with every other bucket emptied.
C16_BucketFrame ==
    [][(last'.op = "draw") =>
          LET l == last'
              b == l.bucket
              with == draw_no_repeat(cooldowns, shuffle, now, b, RawOf(l.eligible),
                                     l.count, l.cooldown, l.mark, {0})
              c0 == CHOOSE c \in {Bucket1, Bucket2} : c # b
              alone == draw_no_repeat(Blank(cooldowns, c0, EmptyDict),
                                      Blank(shuffle, c0, [bag |-> <<>>, seen |-> <<>>]),
                                      now, b, RawOf(l.eligible), l.count, l.cooldown,
                                      l.mark, {0})
          IN  /\ \A c \in {Bucket1, Bucket2} \ {b} :
                    /\ Only(shuffle', c) = Only(shuffle, c)
                    /\ Only(cooldowns', c) = Only(cooldowns, c)
              /\ {Outcome(a, b) : a \in alone} = {Outcome(o, b) : o \in with}
              /\ Outcome([picked |-> l.picked, shuffle |-> shuffle',
                           cooldowns |-> cooldowns'], b) \in {Outcome(a, b) : a \in alone}]_vars

\* A committed draw on the second bucket returned id 1 while the first
\* bucket holds the same id within its cooldown window.
C16_Witness ==
    /\ last.op = "draw" /\ last.bucket = Bucket2 /\ last.mark /\ last.cooldown > 0
    /\ last.picked = <<1>>
    /\ HasEntry(cooldowns, Bucket1, 1)
    /\ now - cooldowns[Bucket1][Str(1)] < last.cooldown
    /\ Seen(shuffle, Bucket1) = <<1>>
    /\ Bag(shuffle, Bucket1) # Bag(shuffle, Bucket2)

\* C17: reconciling a bucket a second time against the same eligible set,
\* with no draw in between, leaves bag and seen exactly as the first
\* reconcile left them, whatever the shuffles do.
C17_ReconcileIdempotent ==
    [][(last'.op = "reconcile") =>
          /\ last'.again => shuffle' = shuffle
          /\ \A r \in refresh_bucket(shuffle', last'.bucket, last'.eligible) :
                r.shuffle = shuffle']_vars

\* A second reconcile against the same set found ids in the bag and in seen.
C17_Witness ==
    /\ last.op = "reconcile" /\ last.again
    /\ Len(Bag(shuffle, Bucket1)) >= 1
    /\ Len(Seen(shuffle, Bucket1)) >= 1
    /\ Range(Bag(shuffle, Bucket1)) \cup Range(Seen(shuffle, Bucket1)) = last.eligible

\* sub is seq restricted to the members of S, in the order of seq.
IsRestriction(sub, seq, S) ==
    LET idx == {i \in 1..Len(seq) : seq[i] \in S}
    IN  /\ Len(sub) = Cardinality(idx)
        /\ \A i \in idx : sub[Cardinality({j \in idx : j <= i})] = seq[i]

\* C18: a reconcile that starts no new cycle leaves as bag the previous bag
\* restricted to E in its order, followed by exactly the ids of E that were
\* in neither bag nor seen, each once; seen is the previous seen restricted
\* to E.
C18_ReconcileKeepsOrder ==
    [][(last'.op = "reconcile" /\ ~last'.fresh) =>
          LET E == last'.eligible
              bag0 == Bag(shuffle, last'.bucket)
              seen0 == Seen(shuffle, last'.bucket)
              bag1 == Bag(shuffle', last'.bucket)
              seen1 == Seen(shuffle', last'.bucket)
              k == Cardinality({i \in 1..Len(bag0) : bag0[i] \in E})
              news == (E \ Range(bag0)) \ Range(seen0)
          IN  /\ Len(bag1) = k + Cardinality(news)
              /\ IsRestriction(SubSeq(bag1, 1, k), bag0, E)
              /\ {bag1[i] : i \in (k + 1)..Len(bag1)} = news
              /\ IsRestriction(seen1, seen0, E)]_vars

\* A reconcile that started no new cycle kept an id of the bag and appended
\* a new one behind it, all ids being eligible now.
C18_Witness ==
    /\ last.op = "reconcile" /\ ~last.fresh /\ ~last.again
    /\ last.added >= 1
    /\ Len(Bag(shuffle, Bucket1)) > last.added
    /\ last.eligible = Ids

\* The position of the first occurrence of x in seq, 0 when there is none.
Pos(x, seq) ==
    IF \E i \in 1..Len(seq) : seq[i] = x
    THEN CHOOSE i \in 1..Len(seq) : seq[i] = x /\ \A j \in 1..(i - 1) : seq[j] # x
    ELSE 0

\* The bag after the id at position j was selected: the ids behind it in
\* their order, then the ids before it in their order.
AfterPick(bag, j) == SubSeq(bag, j + 1, Len(bag)) \o SubSeq(bag, 1, j - 1)

\* x is within its cooldown window of T seconds at time t.
Within(cds, bucket, x, T, t) ==
    /\ T > 0
    /\ HasEntry(cds, bucket, x)
    /\ t - cds[bucket][Str(x)] < T

\* The bags the reconcile at the start of a call can leave.
ReconciledBags(sh, bucket, E) ==
    {r.shuffle[bucket].bag : r \in refresh_bucket(sh, bucket, E)}

\* The picks of a call made before the call started a cycle of its own.
FirstPicks(l) ==
    Cardinality({i \in 1..Len(l.picked) : l.starts[i] = (IF l.fresh THEN 1 ELSE 0)})

\* C19: each selection of a draw returns the first id of the bag, in its
\* order, that the scan finds cooled down: every id in front of it was within
\* its window when the call began, the id itself is past its window when the
\* call ends (so with the clock standing still it is the first cooled-down
\* id of the bag); the selection leaves the ids that followed it at the
\* front in their order and the ids that preceded it behind them in their
\* order.  Checked for the selections made in the cycle the call found.
C19_FirstCooledRotatesRest ==
    [][(last'.op = "draw" /\ last'.reconciled) =>
          LET l == last'
              m == FirstPicks(l)
              T == l.cooldown
          IN  \E bagR \in ReconciledBags(shuffle, l.bucket, l.eligible) :
                LET B[k \in 0..m] ==
                        IF k = 0 THEN bagR
                        ELSE AfterPick(B[k - 1], Pos(l.picked[k], B[k - 1]))
                IN  /\ \A k \in 1..m :
                          LET j == Pos(l.picked[k], B[k - 1])
                          IN  /\ j >= 1
                              /\ \A i \in 1..(j - 1) :
                                    Within(cooldowns, l.bucket, B[k - 1][i], T, now)
                              /\ ~Within(cooldowns, l.bucket, l.picked[k], T, now')
                    /\ IF l.cycles = (IF l.fresh THEN 1 ELSE 0)
                       THEN Bag(shuffle', l.bucket) = B[m]
                       ELSE B[m] = <<>>]_vars

\* A size-1 draw found three ids in the bag, the first two within their
\* window, and returned the third: the first two are the bag now, in their
\* order.
C19_Witness ==
    /\ last.op = "draw" /\ last.count = 1 /\ Len(last.picked) = 1
    /\ Len(history) = 3
    /\ history[3] = last.picked[1]
    /\ Bag(shuffle, Bucket1) = SubSeq(history, 1, 2)
    /\ Within(cooldowns, Bucket1, history[1], last.cooldown, now)
    /\ Within(cooldowns, Bucket1, history[2], last.cooldown, now)

\* The draw steps that came back with fewer ids than asked for.
CameShort(l) ==
    /\ l.op = "draw" /\ l.reconciled
    /\ l.count > 0 /\ l.eligible # {}
    /\ Len(l.picked) < l.count

\* C20 as stated: a draw with count > 0 and a non-empty eligible set returns
\* fewer than count ids only if, on the clock of the moment it stops, every
\* id in the bag is within its cooldown window.
C20_AllWithinWhenItStops ==
    [][CameShort(last') =>
          \A x \in Range(Bag(shuffle', last'.bucket)) :
              Within(cooldowns', last'.bucket, x, last'.cooldown, now')]_vars

\* C20: a scan examines at most len(bag) candidates, and a scan that selects
\* nothing has rotated the bag len(bag) times and left it in its order; a
\* draw with count > 0 and a non-empty eligible set returns fewer than count
\* ids only if the bag is not empty and every id in it was within its
\* cooldown window on the clock of the start of the call (the ids are
\* examined one by one later on, each at its own reading of the clock), and
\* a draw that selects nothing leaves the bag as the reconcile made it.
C20_ShortOnlyWhenAllWithin ==
    [][(last'.op = "draw" /\ last'.reconciled) =>
          LET l == last'
              bag1 == Bag(shuffle', l.bucket)
          IN  /\ \A s \in scan(cooldowns', l.bucket, bag1, 0, Len(bag1),
                                l.cooldown, now', {0, 1}) :
                    /\ s.attempts + Len(s.chosen) <= Len(bag1)
                    /\ s.chosen = <<>> => s.attempts = Len(bag1) /\ s.bag = bag1
              /\ CameShort(l) =>
                    /\ bag1 # <<>>
                    /\ \A x \in Range(bag1) :
                          Within(cooldowns', l.bucket, x, l.cooldown, now)
              /\ (CameShort(l) /\ l.picked = <<>>) =>
                    bag1 \in ReconciledBags(shuffle, l.bucket, l.eligible)]_vars

\* A draw came back short after a full pass over two ids or more, and by the
\* time it stopped an id of the bag had left its cooldown window.
C20_Witness ==
    /\ CameShort(last)
    /\ Len(Bag(shuffle, Bucket1)) >= 2
    /\ \E x \in Range(Bag(shuffle, Bucket1)) :
           ~Within(cooldowns, Bucket1, x, last.cooldown, now)

\* The (bucket, key) pairs that have a cooldown entry.
EntryKeys(cds) == {<<e[1], e[2]>> : e \in Entries(cds)}

\* C21: no step removes a cooldown entry; a draw with mark = true gives the
\* ids it returns, in its bucket, an entry with the clock time of the
\* selection (a time of the call), a draw creates or changes no other entry,
\* and a draw with mark = false none at all.
C21_MarksExactlyThePicks ==
    [][/\ EntryKeys(cooldowns) \subseteq EntryKeys(cooldowns')
       /\ last'.op = "draw" =>
             LET l == last'
                 P == IF l.mark THEN {<<l.bucket, Str(x)>> : x \in Range(l.picked)} ELSE {}
             IN  /\ EntryKeys(cooldowns') = EntryKeys(cooldowns) \cup P
                 /\ \A e \in EntryKeys(cooldowns) \ P :
                       cooldowns'[e[1]][e[2]] = cooldowns[e[1]][e[2]]
                 /\ \A e \in P : /\ now <= cooldowns'[e[1]][e[2]]
                                  /\ cooldowns'[e[1]][e[2]] <= now'
       /\ last'.op # "draw" => Entries(cooldowns') = Entries(cooldowns)]_vars

\* A committed draw on the eligible set {1} returned id 1 and stamped it with
\* the present second, while the older entry of id 2, not eligible now, is
\* still there.
C21_Witness ==
    /\ last.op = "draw" /\ last.mark /\ last.eligible = {1} /\ last.picked = <<1>>
    /\ now > 0
    /\ cooldowns[Bucket1][Str(1)] = now
    /\ HasEntry(cooldowns, Bucket1, 2)
    /\ cooldowns[Bucket1][Str(2)] < now

\* C22 (as claimed): a call of is_cooled_down leaves the cooldowns mapping,
\* its set of bucket keys included, and the shuffle mapping as they were.
C22_QueryIsPure ==
    [][last'.op = "query" => cooldowns' = cooldowns /\ shuffle' = shuffle]_vars

\* bag and seen partition E: no id twice, none in both, all of E and no other.
Partition(bag, seen, E) ==
    /\ NoDups(bag) /\ NoDups(seen)
    /\ Range(bag) \cap Range(seen) = {}
    /\ Range(bag) \cup Range(seen) = E

\* C23: from the empty state, right after a reconcile against a non-empty E
\* and right after a draw that got past its count and eligible-set tests,
\* bag and seen of the bucket partition E; the bag is not empty after such a
\* reconcile; and whenever the bag is empty, as it is where a draw
\* reconciles again in mid-call, a reconcile against any non-empty set
\* leaves a bag that is not empty, so that the draw does not stop there.
C23_BagAndSeenPartitionE ==
    LET bag == Bag(shuffle, Bucket1)
        seen == Seen(shuffle, Bucket1)
    IN  /\ (last.op = "reconcile" /\ last.eligible # {}) =>
              Partition(bag, seen, last.eligible) /\ bag # <<>>
        /\ (last.op = "draw" /\ last.reconciled) =>
              Partition(bag, seen, last.eligible)
        /\ bag = <<>> =>
              \A E \in (SUBSET Ids) \ {{}} :
                 \A r \in refresh_bucket(shuffle, Bucket1, E) :
                    /\ r.shuffle[Bucket1].bag # <<>>
                    /\ Partition(r.shuffle[Bucket1].bag, r.shuffle[Bucket1].seen, E)

\* A reconcile against all ids, after a draw on a smaller set, found an id
\* in seen and put the new ids into the bag.
C23_Witness ==
    /\ last.op = "reconcile" /\ ~last.fresh /\ last.eligible = Ids
    /\ last.added >= 1
    /\ Len(Seen(shuffle, Bucket1)) >= 1

\* C24: a draw with mark = true and cooldown T > 0, during which the clock
\* moves on by less than T, returns no id twice and at most min(count, |E|)
\* ids, also when the bag is reset in mid-call.
C24_NoRepeatWithinOneCall ==
    [][(/\ last'.op = "draw" /\ last'.mark /\ last'.cooldown > 0
        /\ now' - now < last'.cooldown) =>
          /\ NoDups(last'.picked)
          /\ Len(last'.picked) <= Min(last'.count, Cardinality(last'.eligible))]_vars

\* A draw of two ids with a cooldown of two seconds on a single eligible id
\* returned it once: it began a new cycle in mid-call and found the id,
\* marked one second earlier in this call, within its window.
C24_Witness ==
    /\ last.op = "draw" /\ last.mark /\ last.count = 2 /\ last.cooldown = 2
    /\ Cardinality(last.eligible) = 1
    /\ Len(last.picked) = 1
    /\ last.cycles > (IF last.fresh THEN 1 ELSE 0)
    /\ cooldowns[Bucket1][Str(last.picked[1])] = now - 1
    /\ Bag(shuffle, Bucket1) = last.picked

\* C25: with a fixed non-empty eligible set and a fixed cooldown, as the
\* committed draws of one id or more go on and the clock goes on, every
\* eligible id is returned again and again.
C25_EveryIdReturnedAgain ==
    \A x \in Ids :
        (x \in fixedE) =>
            []<><<last'.op = "draw" /\ x \in Range(last'.picked)>>_vars

\* A draw on the largest eligible set with the longest cooldown began a new
\* cycle and returned an id that has its timestamp from the cycle before.
C25_Witness ==
    /\ fixedE = Ids /\ fixedT = LiveCooldown
    /\ last.op = "draw" /\ last.fresh /\ last.picked # <<>>
    /\ Len(Bag(shuffle, Bucket1)) >= 1
    /\ \A x \in fixedE : HasEntry(cooldowns, Bucket1, x)

\* C26 (as claimed): from a store loaded from any document, after the first
\* reconcile of the bucket and after every draw that reconciled it, bag and
\* seen of the bucket are duplicate-free and have no id in common.
C26_LoadedCycleStateIsClean ==
    (last.op = "reconcile" \/ (last.op = "draw" /\ last.reconciled)) =>
        /\ NoDups(Bag(shuffle, Bucket1))
        /\ NoDups(Seen(shuffle, Bucket1))
        /\ Range(Bag(shuffle, Bucket1)) \cap Range(Seen(shuffle, Bucket1)) = {}

\* The draw began a new cycle inside the call (after its first pick): seen
\* was emptied and the ids picked before went back into the bag.
MidCallCycle(l) == l.cycles > (IF l.fresh THEN 1 ELSE 0)

\* The ids of unsent have the timestamp of their pick in cds and are in the
\* seen list of sh; with inSeen = FALSE, in its seen list or its bag.
Recorded(cds, sh, mk, unsent, inSeen) ==
    \A x \in Range(unsent) :
        /\ HasEntry(cds, Bucket1, x)
        /\ cds[Bucket1][Str(x)] = mk[Bucket1][Str(x)]
        /\ x \in Range(Seen(sh, Bucket1)) \cup
                 (IF inSeen THEN {} ELSE Range(Bag(sh, Bucket1)))

\* The steps of a tick; strict asks for the unsent ids in seen whatever the
\* draw did, otherwise in seen when the draw began no new cycle inside the
\* call and in seen or bag when it did.  The draw has recorded every picked
\* id at the time of the call before any command is posted; a failing post changes neither cooldowns nor cycle state, ends
\* the work of the tick and leaves the unsent ids recorded; from there only
\* the steps of the save follow, and a completed save has written that state.
TickSteps(strict) ==
    /\ last'.op = "draw" =>
          /\ history' = last'.picked
          /\ Recorded(cooldowns', shuffle', marked', last'.picked,
                      strict \/ ~MidCallCycle(last'))
          /\ \A x \in Range(last'.picked) : cooldowns'[Bucket1][Str(x)] = now'
    /\ (last'.op = "post" /\ ~last'.ok) =>
          /\ cooldowns' = cooldowns /\ shuffle' = shuffle
          /\ history' = history /\ history # <<>>
          /\ pc' = "save"
          /\ Recorded(cooldowns', shuffle', marked', history',
                      strict \/ ~MidCallCycle(last'.draw))
    /\ pc \in {"save", "write"} =>
          /\ last'.op \in {"open", "write", "save", "save_failed"}
          /\ cooldowns' = cooldowns /\ shuffle' = shuffle /\ history' = history
    /\ last'.op = "save" =>
          /\ load(disk').cooldowns = cooldowns
          /\ load(disk').shuffle = shuffle
          /\ history # <<>> =>
                Recorded(load(disk').cooldowns, load(disk').shuffle, marked, history,
                         strict)

\* C27 (as claimed): in a tick that is not a dry run the draw has put every
\* picked id into seen and given it its cooldown timestamp before any search
\* command is posted; a failing post rolls nothing back, the ids whose
\* command was never sent remain in seen with their timestamp, the rest of
\* the tick is skipped, and the save at the end of the tick writes that state.
C27_UnsentRemainInSeen ==
    [][TickSteps(TRUE)]_vars

\* C27 (amended): in a tick that is not a dry run the draw has given every
\* picked id its cooldown timestamp before any search command is posted, and
\* has put it into seen, where it still is unless the draw began a new cycle
\* inside the call after picking it; then the id is back in the bag.  A failing
\* post rolls nothing back: the ids whose command was never sent keep their
\* timestamp and their place in seen or bag, the rest of the tick is skipped,
\* and a save at the end of the tick that completes writes that state.
C27_UnsentStayRecorded ==
    [][TickSteps(FALSE)]_vars

\* A tick drew two ids, posted the command of the first, failed on the
\* second and saved: the file holds the unsent id in seen with its timestamp.
C27_Witness ==
    /\ pc = "sleep" /\ last.op = "save"
    /\ trace = <<"draw", "post", "raise", "save">>
    /\ Len(history) = 1
    /\ disk = save(cooldowns, shuffle)
    /\ history[1] \in Range(Seen(load(disk).shuffle, Bucket1))
    /\ load(disk).cooldowns[Bucket1][Str(history[1])] = now
====
